---- MODULE Spec2Model ----
(***************************************************************************)
(* Comparator-driven binary search tree (namespace btree): BtreeNode<T>    *)
(* and Btree<T>.                                                           *)
(*                                                                         *)
(* A BtreeValue<T> (std::unique_ptr<BtreeNode<T>>) is a sequence of length *)
(* 0 (nullptr) or 1 (the owned node).  A node is a record of its four      *)
(* fields.  A reference to a stored value (BtreeSearchResult<T>) is an     *)
(* optional path from the root: <<>> is std::nullopt, <<p>> refers to the  *)
(* _value of the node reached from the root by the left()/right() steps p. *)
(***************************************************************************)
EXTENDS Integers, Sequences, FiniteSets, TLC

\* Number of Btree::insert calls in a run.
MaxNodes == 4

\* Number of Btree::insert calls in a run that also sets visited flags.
MaxVisitNodes == 3

\* The element type T: three values with operator==.
Values == {1, 2, 3}

\* BtreeCmp<T>: every total boolean function of two values.
Comparators == [Values \X Values -> BOOLEAN]

\* Comparators the runs with visited flags are made with.
Less == [p \in Values \X Values |-> p[1] < p[2]]
GreaterEq == [p \in Values \X Values |-> p[1] >= p[2]]
Cyclic == [p \in Values \X Values |-> (p[2] - p[1]) % 3 = 1]
AlwaysLeft == [p \in Values \X Values |-> TRUE]
CmpSamples == {Less, GreaterEq, Cyclic, AlwaysLeft}

VARIABLES
    root,              \* Btree::_root
    cmp,               \* Btree::_cmp
    allow_duplicates,  \* Btree::_allow_duplicates
    status,            \* "ok", or "crashed" once the process has died
    inserted,          \* the values passed to Btree::insert so far
    calls,             \* the number of Btree::insert calls so far
    op                 \* the last call made and what it returned

vars == <<root, cmp, allow_duplicates, status, inserted, calls, op>>

nullptr == <<>>
nullopt == <<>>

----------------------------------------------------------------------------
(* BtreeNode<T> *)

makeNode(value) ==
    [value |-> value, left |-> nullptr, right |-> nullptr, visited |-> FALSE]

\* insert without the equality test.
RECURSIVE insertNoDupCheck(_, _, _, _)
insertNoDupCheck(node, value, c, dup) ==
    IF c[<<value, node.value>>]
    THEN IF node.left # nullptr
         THEN [node EXCEPT !.left = <<insertNoDupCheck(node.left[1], value, c, dup)>>]
         ELSE [node EXCEPT !.left = <<makeNode(value)>>]
    ELSE IF node.right # nullptr
         THEN [node EXCEPT !.right = <<insertNoDupCheck(node.right[1], value, c, dup)>>]
         ELSE [node EXCEPT !.right = <<makeNode(value)>>]

\* insert with the two directions exchanged.
RECURSIVE insertSwapped(_, _, _, _)
insertSwapped(node, value, c, dup) ==
    IF ~dup /\ value = node.value
    THEN node
    ELSE IF c[<<value, node.value>>]
         THEN IF node.right # nullptr
              THEN [node EXCEPT !.right = <<insertSwapped(node.right[1], value, c, dup)>>]
              ELSE [node EXCEPT !.right = <<makeNode(value)>>]
         ELSE IF node.left # nullptr
              THEN [node EXCEPT !.left = <<insertSwapped(node.left[1], value, c, dup)>>]
              ELSE [node EXCEPT !.left = <<makeNode(value)>>]

\* insert that assigns the chosen child without looking at what it holds.
insertOverwrite(node, value, c, dup) ==
    IF ~dup /\ value = node.value
    THEN node
    ELSE IF c[<<value, node.value>>]
         THEN [node EXCEPT !.left = <<makeNode(value)>>]
         ELSE [node EXCEPT !.right = <<makeNode(value)>>]

\* insert that tests equality at the node it is first called on only.
insertRootDupCheck(node, value, c, dup) ==
    IF ~dup /\ value = node.value
    THEN node
    ELSE insertNoDupCheck(node, value, c, dup)

RECURSIVE insert(_, _, _, _)
insert(node, value, c, dup) ==
    IF ~dup /\ value = node.value
    THEN node
    ELSE IF c[<<value, node.value>>]
         THEN IF node.left # nullptr
              THEN [node EXCEPT !.left = <<insert(node.left[1], value, c, dup)>>]
              ELSE [node EXCEPT !.left = <<makeNode(value)>>]
         ELSE IF node.right # nullptr
              THEN [node EXCEPT !.right = <<insert(node.right[1], value, c, dup)>>]
              ELSE [node EXCEPT !.right = <<makeNode(value)>>]

\* The reference found in a child, seen from the parent.
Via(dir, found) == IF found = nullopt THEN nullopt ELSE << <<dir>> \o found[1] >>

\* search with the two directions exchanged.
RECURSIVE searchSwapped(_, _, _)
searchSwapped(node, value, c) ==
    IF node.value = value
    THEN << <<>> >>
    ELSE IF c[<<value, node.value>>]
         THEN IF node.right # nullptr
              THEN Via("R", searchSwapped(node.right[1], value, c))
              ELSE nullopt
         ELSE IF node.left # nullptr
              THEN Via("L", searchSwapped(node.left[1], value, c))
              ELSE nullopt

\* search that answers with the last node of the descent when the child it
\* would go to is absent.
RECURSIVE searchNearest(_, _, _)
searchNearest(node, value, c) ==
    IF node.value = value
    THEN << <<>> >>
    ELSE IF c[<<value, node.value>>]
         THEN IF node.left # nullptr
              THEN Via("L", searchNearest(node.left[1], value, c))
              ELSE << <<>> >>
         ELSE IF node.right # nullptr
              THEN Via("R", searchNearest(node.right[1], value, c))
              ELSE << <<>> >>

RECURSIVE search(_, _, _)
search(node, value, c) ==
    IF node.value = value
    THEN << <<>> >>
    ELSE IF c[<<value, node.value>>]
         THEN IF node.left # nullptr
              THEN Via("L", search(node.left[1], value, c))
              ELSE nullopt
         ELSE IF node.right # nullptr
              THEN Via("R", search(node.right[1], value, c))
              ELSE nullopt

isVisited(node) == node.visited

\* unvisit that recurses into the left child only.
RECURSIVE unvisitLeftOnly(_, _)
unvisitLeftOnly(node, unvisitSubNodes) ==
    LET cleared == [node EXCEPT !.visited = FALSE]
    IN  IF unvisitSubNodes
        THEN [cleared EXCEPT
                !.left = IF node.left # nullptr
                         THEN <<unvisitLeftOnly(node.left[1], unvisitSubNodes)>>
                         ELSE nullptr]
        ELSE cleared

\* unvisit that recurses whatever its argument.
RECURSIVE unvisitAlways(_, _)
unvisitAlways(node, unvisitSubNodes) ==
    [node EXCEPT
        !.visited = FALSE,
        !.left = IF node.left # nullptr
                 THEN <<unvisitAlways(node.left[1], unvisitSubNodes)>>
                 ELSE nullptr,
        !.right = IF node.right # nullptr
                  THEN <<unvisitAlways(node.right[1], unvisitSubNodes)>>
                  ELSE nullptr]

RECURSIVE unvisit(_, _)
unvisit(node, unvisitSubNodes) ==
    LET cleared == [node EXCEPT !.visited = FALSE]
    IN  IF unvisitSubNodes
        THEN [cleared EXCEPT
                !.left = IF node.left # nullptr
                         THEN <<unvisit(node.left[1], unvisitSubNodes)>>
                         ELSE nullptr,
                !.right = IF node.right # nullptr
                          THEN <<unvisit(node.right[1], unvisitSubNodes)>>
                          ELSE nullptr]
        ELSE cleared

visit(node) == [node EXCEPT !.visited = TRUE]

----------------------------------------------------------------------------
(* Reaching a node from the root through the left() / right() accessors *)

RECURSIVE Paths(_)
Paths(slot) ==
    IF slot = nullptr
    THEN {}
    ELSE {<<>>} \cup {<<"L">> \o p : p \in Paths(slot[1].left)}
                \cup {<<"R">> \o p : p \in Paths(slot[1].right)}

RECURSIVE NodeAt(_, _)
NodeAt(node, p) ==
    IF p = <<>> THEN node
    ELSE IF Head(p) = "L" THEN NodeAt(node.left[1], Tail(p))
         ELSE NodeAt(node.right[1], Tail(p))

RECURSIVE ReplaceAt(_, _, _)
ReplaceAt(node, p, new) ==
    IF p = <<>> THEN new
    ELSE IF Head(p) = "L"
         THEN [node EXCEPT !.left = <<ReplaceAt(node.left[1], Tail(p), new)>>]
         ELSE [node EXCEPT !.right = <<ReplaceAt(node.right[1], Tail(p), new)>>]

----------------------------------------------------------------------------
(* Btree<T> *)

Btree_insert(r, value, c, dup) ==
    IF r = nullptr
    THEN <<makeNode(value)>>
    ELSE <<insert(r[1], value, c, dup)>>

Btree_search(r, value, c) ==
    IF r # nullptr THEN search(r[1], value, c) ELSE nullopt

Btree_unvisitNodes(r) == <<unvisit(r[1], TRUE)>>

NoCall == [name |-> "none", value |-> 0, path |-> <<>>, recurse |-> FALSE,
           result |-> nullopt]

Call(name, value, path, recurse, result) ==
    [name |-> name, value |-> value, path |-> path, recurse |-> recurse,
     result |-> result]

\* Btree(cmp, allow_duplicates): any comparator, either policy, no root.
Init ==
    /\ root = nullptr
    /\ cmp \in Comparators
    /\ allow_duplicates \in BOOLEAN
    /\ status = "ok"
    /\ inserted = {}
    /\ calls = 0
    /\ op = NoCall

Insert(value) ==
    /\ status = "ok"
    /\ calls < MaxNodes
    /\ root' = Btree_insert(root, value, cmp, allow_duplicates)
    /\ inserted' = inserted \cup {value}
    /\ calls' = calls + 1
    /\ op' = Call("insert", value, <<>>, FALSE, nullopt)
    /\ UNCHANGED <<cmp, allow_duplicates, status>>

Search(value) ==
    /\ status = "ok"
    /\ op' = Call("search", value, <<>>, FALSE, Btree_search(root, value, cmp))
    /\ UNCHANGED <<root, cmp, allow_duplicates, status, inserted, calls>>

\* A caller reaches the node at path p through root(), left() and right()
\* and calls visit() on it.
Visit(p) ==
    /\ status = "ok"
    /\ root # nullptr
    /\ root' = <<ReplaceAt(root[1], p, visit(NodeAt(root[1], p)))>>
    /\ op' = Call("visit", 0, p, FALSE, nullopt)
    /\ UNCHANGED <<cmp, allow_duplicates, status, inserted, calls>>

Unvisit(p, unvisitSubNodes) ==
    /\ status = "ok"
    /\ root # nullptr
    /\ root' = <<ReplaceAt(root[1], p, unvisit(NodeAt(root[1], p), unvisitSubNodes))>>
    /\ op' = Call("unvisit", 0, p, unvisitSubNodes, nullopt)
    /\ UNCHANGED <<cmp, allow_duplicates, status, inserted, calls>>

\* _root->unvisit(true) with no test of _root: on an empty tree the call goes
\* through a null pointer, which is undefined behaviour.  The write to
\* _visited faults, or the call returns having changed nothing of the tree.
UnvisitNodes ==
    /\ status = "ok"
    /\ op' = Call("unvisitNodes", 0, <<>>, TRUE, nullopt)
    /\ \/ /\ root # nullptr
          /\ root' = Btree_unvisitNodes(root)
          /\ UNCHANGED status
       \/ /\ root = nullptr
          /\ status' \in {"ok", "crashed"}
          /\ UNCHANGED root
    /\ UNCHANGED <<cmp, allow_duplicates, inserted, calls>>

----------------------------------------------------------------------------
(* Insert and search under every comparator *)

Next ==
    \/ \E value \in Values : Insert(value)
    \/ \E value \in Values : Search(value)

Spec == Init /\ [][Next]_vars

----------------------------------------------------------------------------
(* Every operation, visited flags included, under the sample comparators *)

InitVisit ==
    /\ Init
    /\ cmp \in CmpSamples

NextVisit ==
    \/ \E value \in Values : calls < MaxVisitNodes /\ Insert(value)
    \/ \E value \in Values : Search(value)
    \/ \E p \in Paths(root) : Visit(p)
    \/ \E p \in Paths(root) : \E unvisitSubNodes \in BOOLEAN : Unvisit(p, unvisitSubNodes)
    \/ UnvisitNodes

SpecVisit == InitVisit /\ [][NextVisit]_vars

----------------------------------------------------------------------------
(* The Btree of src/BTree.hpp: root held in a std::optional, no duplicate   *)
(* policy, constructors that may take the root's value.                    *)

\* Btree(cmp), Btree(cmp, T&), Btree(cmp, T&&)
InitDraft ==
    /\ root \in {nullptr} \cup {<<makeNode(value)>> : value \in Values}
    /\ cmp \in Comparators
    /\ allow_duplicates = TRUE
    /\ status = "ok"
    /\ inserted = {}
    /\ calls = 0
    /\ op = NoCall

\* if (_root) _root = { BtreeNode(value) }; else _root.insert(value, cmp);
\* An engaged root is overwritten by a fresh node.  A disengaged one is
\* used as if it held a node: undefined behaviour, which faults or returns
\* with the optional still disengaged.
DraftInsert(value) ==
    /\ status = "ok"
    /\ calls < MaxNodes
    /\ inserted' = inserted \cup {value}
    /\ calls' = calls + 1
    /\ op' = Call("insert", value, <<>>, FALSE, nullopt)
    /\ \/ /\ root # nullptr
          /\ root' = <<makeNode(value)>>
          /\ UNCHANGED status
       \/ /\ root = nullptr
          /\ status' \in {"ok", "crashed"}
          /\ UNCHANGED root
    /\ UNCHANGED <<cmp, allow_duplicates>>

NextDraft ==
    \/ \E value \in Values : DraftInsert(value)
    \/ \E value \in Values : Search(value)

SpecDraft == InitDraft /\ [][NextDraft]_vars

----------------------------------------------------------------------------
(* Reading a tree *)

ValueAt(r, p) == NodeAt(r[1], p).value

VisitedAt(r, p) == isVisited(NodeAt(r[1], p))

NodeCount(r) == Cardinality(Paths(r))

IsPrefix(p, q) == Len(p) <= Len(q) /\ SubSeq(q, 1, Len(p)) = p

\* The values stored in the subtree a child slot holds.
RECURSIVE SubtreeValues(_)
SubtreeValues(slot) ==
    IF slot = nullptr
    THEN {}
    ELSE {slot[1].value} \cup SubtreeValues(slot[1].left) \cup SubtreeValues(slot[1].right)

\* Every node of r is in r2, at the same place, with the same value and flag.
Kept(r, r2) ==
    \A p \in Paths(r) :
        /\ p \in Paths(r2)
        /\ ValueAt(r2, p) = ValueAt(r, p)
        /\ VisitedAt(r2, p) = VisitedAt(r, p)

SameShapeAndValues(r, r2) ==
    /\ Paths(r2) = Paths(r)
    /\ \A p \in Paths(r) : ValueAt(r2, p) = ValueAt(r, p)

\* The step is a call of Btree::insert.
InsertStep == op'.name = "insert" /\ calls' = calls + 1

----------------------------------------------------------------------------
(* Properties *)

\* C1: whatever the comparator and the duplicate policy, search(v) returns a
\* present result that refers to a stored value equal to v, for every value v
\* passed to insert so far (dropped duplicates included).
C1_InsertedIsFound ==
    \A v \in inserted :
        LET found == Btree_search(root, v, cmp)
        IN  /\ found # nullopt
            /\ ValueAt(root, found[1]) = v

\* Without duplicates and after a dropped insert, a search has just found an
\* inserted value two levels below the root.
C1_Witness ==
    /\ op.name = "search"
    /\ ~allow_duplicates
    /\ op.value \in inserted
    /\ calls > NodeCount(root)
    /\ op.result # nullopt
    /\ Len(op.result[1]) = 2

\* C2: search(v) is absent when v was never inserted (so on the empty tree),
\* and a present result refers to a node of the tree.
C2_NeverInsertedIsAbsent ==
    \A v \in Values :
        LET found == Btree_search(root, v, cmp)
        IN  /\ v \notin inserted => found = nullopt
            /\ root = nullptr => found = nullopt
            /\ found # nullopt => found[1] \in Paths(root) /\ ValueAt(root, found[1]) = v

\* A search of a three-node tree has just missed a value never inserted.
C2_Witness ==
    /\ op.name = "search"
    /\ op.value \notin inserted
    /\ NodeCount(root) >= 3
    /\ op.result = nullopt

\* C3: without duplicates, the second of two insert(v) calls made in direct
\* succession leaves the whole tree as the first left it.
C3_SecondInsertIsNoOp ==
    [][(/\ ~allow_duplicates
        /\ op.name = "insert"
        /\ InsertStep
        /\ op'.value = op.value) => root' = root]_vars

\* Without duplicates, three inserts have made two nodes and the last one
\* was of the value stored below the root.
C3_Witness ==
    /\ ~allow_duplicates
    /\ op.name = "insert"
    /\ calls = 3
    /\ NodeCount(root) = 2
    /\ root[1].value # op.value

\* C4: unvisitNodes() on a non-empty tree leaves every node unvisited and
\* the shape and the values as they were.
C4_UnvisitNodesClearsAll ==
    [][(op'.name = "unvisitNodes" /\ root # nullptr) =>
          /\ status' = "ok"
          /\ \A p \in Paths(root') : ~VisitedAt(root', p)
          /\ SameShapeAndValues(root, root')]_vars

\* unvisitNodes() has just run on a tree that has a right grandchild.
C4_Witness ==
    /\ op.name = "unvisitNodes"
    /\ status = "ok"
    /\ \E p \in Paths(root) : Len(p) = 2 /\ p[2] = "R"
    /\ \A p \in Paths(root) : ~VisitedAt(root, p)

\* C5: unvisitNodes() on an empty tree does not crash: it completes and
\* leaves the tree empty.
C5_EmptyUnvisitNodesIsNoOp ==
    (op.name = "unvisitNodes" /\ calls = 0) => (status = "ok" /\ root = nullptr)

\* C6: visit() sets the flag of its node only; unvisit(false) clears the flag
\* of its node only; unvisit(true) clears the flags of its node and of the
\* nodes below it, and no other. Shape and values stay.
C6_VisitFrame ==
    [][/\ op'.name = "visit" =>
            /\ SameShapeAndValues(root, root')
            /\ \A q \in Paths(root) :
                 VisitedAt(root', q) = (q = op'.path \/ VisitedAt(root, q))
       /\ (op'.name = "unvisit" /\ ~op'.recurse) =>
            /\ SameShapeAndValues(root, root')
            /\ \A q \in Paths(root) :
                 VisitedAt(root', q) = (q # op'.path /\ VisitedAt(root, q))
       /\ (op'.name = "unvisit" /\ op'.recurse) =>
            /\ SameShapeAndValues(root, root')
            /\ \A q \in Paths(root) :
                 VisitedAt(root', q) = (~IsPrefix(op'.path, q) /\ VisitedAt(root, q))]_vars

\* unvisit(false) has just run on a node that has a visited child, and the
\* node's parent is still visited.
C6_Witness ==
    /\ op.name = "unvisit"
    /\ ~op.recurse
    /\ Len(op.path) = 1
    /\ VisitedAt(root, <<>>)
    /\ ~VisitedAt(root, op.path)
    /\ \E q \in Paths(root) : Len(q) = 2 /\ IsPrefix(op.path, q) /\ VisitedAt(root, q)

\* C7: insert on a non-empty tree never replaces the root and discards no
\* node already in the tree: the root keeps its value (the first one stored)
\* and every node keeps its place, value and flag.
C7_InsertKeepsRoot ==
    [][(InsertStep /\ root # nullptr) =>
          /\ root' # nullptr
          /\ root'[1].value = root[1].value
          /\ Kept(root, root')]_vars

\* C7, the empty tree: insert makes the value the root node.
C7_InsertIntoEmptyMakesRoot ==
    [][(InsertStep /\ root = nullptr) =>
          (status' = "ok" /\ root' = <<makeNode(op'.value)>>)]_vars

C9_InsertAddsOneLeaf ==
    [][InsertStep =>
          LET dropped == ~allow_duplicates /\ op'.value \in SubtreeValues(root)
              added == Paths(root') \ Paths(root)
          IN  /\ dropped => root' = root
              /\ ~dropped =>
                    /\ Cardinality(added) = 1
                    /\ Kept(root, root')
                    /\ \A p \in added :
                          /\ NodeAt(root'[1], p) = makeNode(op'.value)
                          /\ \A q \in Paths(root') : ~(IsPrefix(p, q) /\ q # p)
              /\ allow_duplicates => NodeCount(root') = calls']_vars

\* An insert has just added a third node below a visited one.
C9_Witness ==
    /\ op.name = "insert"
    /\ NodeCount(root) = 3
    /\ \E p \in Paths(root) :
          /\ Len(p) = 2
          /\ NodeAt(root[1], p) = makeNode(op.value)
          /\ VisitedAt(root, SubSeq(p, 1, 1))

\* C10: without duplicates no two nodes hold equal values, whatever the
\* comparator: the tree stores as many distinct values as it has nodes.
C10_NoEqualNodes ==
    ~allow_duplicates => Cardinality(SubtreeValues(root)) = NodeCount(root)

\* Without duplicates, under a comparator that is not transitive, an insert
\* of a value stored two levels down has been dropped.
C10_Witness ==
    /\ ~allow_duplicates
    /\ \E a, b, c \in Values : cmp[<<a, b>>] /\ cmp[<<b, c>>] /\ ~cmp[<<a, c>>]
    /\ NodeCount(root) = 3
    /\ calls = 4
    /\ op.name = "insert"
    /\ \E p \in Paths(root) : Len(p) = 2 /\ ValueAt(root, p) = op.value

====
